---- MODULE Spec2Model ----
(***************************************************************************)
(* ToneSeq (src/app.js): a 13-pitch x 16-step sequencer whose grid is also *)
(* rendered as a graph.  The model covers the playback clock (buildLoop,   *)
(* setPlaybackMode, play, stop), the grid handlers (onCellClick, clearAll),*)
(* the graph synchroniser (buildChordGroups, updateGraph), the radial      *)
(* layout (positionNodes) and the traversal animator (updateGraphPlayhead).*)
(* Every handler runs to completion on the single JavaScript event loop,   *)
(* so each is one action.                                                  *)
(*                                                                         *)
(* JavaScript arrays are modelled as sequences; At(a, i) reads a[i] with   *)
(* the source's 0-based index.  Node identifiers are the source's strings. *)
(* The grid, a 13 x 16 matrix of booleans, is kept as the set of its true   *)
(* cells: grid[note][step] is <<note, step>> \in grid.                      *)
(***************************************************************************)
EXTENDS Integers, Sequences, FiniteSets, TLC

\* ------------------------------------------------------------- constants

NOTES == <<"C5", "B4", "A#4", "A4", "G#4", "G4", "F#4", "F4", "E4", "D#4", "D4", "C#4", "C4">>
NOTE_LABELS == <<"C5", "B", "A#", "A", "G#", "G", "F#", "F", "E", "D#", "D", "C#", "C4">>
STEPS == 16

Modes == {"forward", "reverse", "pingpong"}
\* pendingPlaybackMode = null
NoMode == "null"
BallId == "__ball__"

\* -------------------------------------------------------------- bounds

\* The cells the user clicks, in the order they are taken into the model:
\* the first NumToggleCells of them are clickable.
ToggleCells ==
  << <<"C4", 0>>, <<"C5", 0>>, <<"E4", 8>>, <<"G4", 0>>, <<"C4", 15>>,
     <<"A4", 3>>, <<"G4", 8>>, <<"C5", 15>>, <<"D4", 1>> >>
NumToggleCells == 3
\* play() calls suspended at `await Tone.start()`
MaxPendingPlay == 1
\* visual callbacks scheduled by ticks and not yet run
MaxVisualQueue == 1
\* velocities are kept as integers: VelocityScale stands for 1.0
VelocityScale == 1000

Cells == {ToggleCells[i] : i \in 1..NumToggleCells}

\* With the clock at rest more of the cells are clickable: the first
\* NumEditCells of ToggleCells.
NumEditCells == 7
EditCells == {ToggleCells[i] : i \in 1..NumEditCells}

\* With every handler of the program at work, modes included, two cells are
\* clickable: one at step 0 and one at step 8.
ModeCells == {ToggleCells[1], ToggleCells[3]}

\* --------------------------------------------------------------- helpers

At(a, i) == a[i + 1]
Range(s) == {s[i] : i \in 1..Len(s)}
Reverse(s) == [i \in 1..Len(s) |-> s[Len(s) + 1 - i]]
\* Array.prototype.indexOf: the first index holding v, -1 when there is none
IndexOf(a, v) ==
  IF \E i \in 1..Len(a) : a[i] = v
  THEN (CHOOSE i \in 1..Len(a) : a[i] = v /\ \A j \in 1..(i - 1) : a[j] # v) - 1
  ELSE -1
Max(a, b) == IF a >= b THEN a ELSE b

StepSeq == [i \in 1..STEPS |-> i - 1]

\* ------------------------------------------------------- pure functions

eventId(note, step) == note \o "@" \o ToString(step)

getStepArray_SharedEnds(mode) ==
  LET fwd == StepSeq
  IN  IF mode = "reverse" THEN Reverse(fwd)
      ELSE IF mode = "pingpong" THEN fwd \o SubSeq(Reverse(fwd), 2, STEPS - 1)
      ELSE fwd
getStepArray(mode) ==
  LET fwd == StepSeq
  IN  IF mode = "reverse" THEN Reverse(fwd)
      ELSE IF mode = "pingpong" THEN fwd \o Reverse(fwd)
      ELSE fwd

\* NOTES.filter(n => g[n][s]): the pitches active at step s, high to low
notesAt(g, s) == SelectSeq(NOTES, LAMBDA n : <<n, s>> \in g)

buildChordGroups_AnchorTop(g) ==
  [s \in {t \in 0..(STEPS - 1) : Len(notesAt(g, t)) > 0} |->
     LET notesAtStep == notesAt(g, s)
         nodeIds == [i \in 1..Len(notesAtStep) |-> eventId(notesAtStep[i], s)]
     IN  [notes    |-> notesAtStep,
          nodeIds  |-> nodeIds,
          anchor   |-> notesAtStep[1],
          anchorId |-> nodeIds[1]]]
buildChordGroups(g) ==
  [s \in {t \in 0..(STEPS - 1) : Len(notesAt(g, t)) > 0} |->
     LET notesAtStep == notesAt(g, s)
         nodeIds == [i \in 1..Len(notesAtStep) |-> eventId(notesAtStep[i], s)]
     IN  [notes    |-> notesAtStep,
          nodeIds  |-> nodeIds,
          anchor   |-> notesAtStep[Len(notesAtStep)],
          anchorId |-> nodeIds[Len(nodeIds)]]]

\* the for-loop of updateGraph that fills stepSequence in step order
buildStepSequence(groups) ==
  LET steps == SelectSeq(StepSeq, LAMBDA s : s \in DOMAIN groups)
  IN  [i \in 1..Len(steps) |->
         [step     |-> steps[i],
          notes    |-> groups[steps[i]].notes,
          nodeIds  |-> groups[steps[i]].nodeIds,
          anchor   |-> groups[steps[i]].anchor,
          anchorId |-> groups[steps[i]].anchorId]]

\* floor(sqrt(n)) by Newton's iteration on integers
RECURSIVE IsqrtIter(_, _)
IsqrtIter(n, x) ==
  LET y == (x + n \div x) \div 2
  IN  IF y >= x THEN x ELSE IsqrtIter(n, y)
Isqrt(n) == IF n = 0 THEN 0 ELSE IsqrtIter(n, n)

\* 1 / Math.sqrt(k), in units of 1/VelocityScale, rounded down
velocityOf(k) == Isqrt((VelocityScale * VelocityScale) \div k)

\* ----------------------------------------------------------------- state

VARIABLES
  grid,                 \* the cells <<note, step>> with grid[note][step] = true
  chordGroups,          \* Map<step, {notes, nodeIds, anchor, anchorId}>
  stepSequence,         \* [{step, notes, nodeIds, anchor, anchorId}] in step order
  isPlaying,
  prevPlayingNodes,     \* the nodes highlighted by the last visual update
  playbackMode,
  pendingPlaybackMode,  \* NoMode, or the mode to apply at the next boundary
  activeStepArray,
  seqPosition,
  playAwait,            \* play() calls suspended at `await Tone.start()`
  drawQueue,            \* callbacks handed to scheduleVisual, oldest first
  cyNodes,              \* ids of the nodes of the Cytoscape graph
  cyEdges,              \* the edges of the graph (their data)
  cyPlaying,            \* ids of the nodes that carry class 'playing'
  ballOpacity,          \* style opacity of the traversal ball: 0 or 1
  ballAnim,             \* the ball's running animation, or NoAnim
  ballPos,              \* where the ball was last put: "origin" or a node id
  playheadCol,          \* the step whose cells carry class 'playhead', or -1
  tickOut,              \* what the last handler did as a tick: the step it read,
                        \* the step after it, its calls of triggerAttackRelease
  ev,                   \* observer: the handler that ran last and what it found
  waited                \* observer: ticks a queued mode has waited so far

clockVars == <<isPlaying, playbackMode, pendingPlaybackMode, activeStepArray,
               seqPosition, playAwait>>
gridVars  == <<grid, chordGroups, stepSequence>>
cyVars    == <<cyNodes, cyEdges, cyPlaying, prevPlayingNodes, ballOpacity,
               ballAnim, ballPos>>
vars == <<grid, chordGroups, stepSequence, isPlaying, prevPlayingNodes,
          playbackMode, pendingPlaybackMode, activeStepArray, seqPosition,
          playAwait, drawQueue, cyNodes, cyEdges, cyPlaying, ballOpacity,
          ballAnim, ballPos, playheadCol, tickOut, ev, waited>>

NoAnim == [target |-> "none", dist |-> 0]

\* A handler other than the tick reads no step and triggers nothing.
NoTick == [step |-> -1, next |-> -1, calls |-> <<>>]

\* What the observer notes of a handler: which it was, its argument, and the
\* isPlaying, pendingPlaybackMode and seqPosition it found.
Observe(op, arg) ==
  /\ ev' = [op |-> op, arg |-> arg, was |-> isPlaying,
            pend |-> pendingPlaybackMode, pos |-> seqPosition]
  /\ UNCHANGED waited

\* The state once the DOMContentLoaded handler has run: the grid is empty,
\* initSynth has built the loop for the forward mode, initGraph has added the
\* ball.
Init ==
  /\ grid = {}
  /\ chordGroups = [s \in {} |-> 0]
  /\ stepSequence = <<>>
  /\ isPlaying = FALSE
  /\ prevPlayingNodes = <<>>
  /\ playbackMode = "forward"
  /\ pendingPlaybackMode = NoMode
  /\ activeStepArray = getStepArray("forward")
  /\ seqPosition = 0
  /\ playAwait = 0
  /\ drawQueue = <<>>
  /\ cyNodes = {BallId}
  /\ cyEdges = {}
  /\ cyPlaying = {}
  /\ ballOpacity = 0
  /\ ballAnim = NoAnim
  /\ ballPos = "origin"
  /\ playheadCol = -1
  /\ tickOut = NoTick
  /\ ev = [op |-> "init", arg |-> NoMode, was |-> FALSE, pend |-> NoMode, pos |-> 0]
  /\ waited = 0

\* ------------------------------------------------------- playback clock

\* line 119: the queued mode is applied only at the start of a pass
ApplyAtBoundary_Always(pos, pending) == pending # NoMode
ApplyAtBoundary_SkipSame(pos, pending) ==
  pos = 0 /\ pending # NoMode /\ pending # playbackMode
ApplyAtBoundary(pos, pending) == pos = 0 /\ pending # NoMode

\* lines 130-136: the calls of synth.triggerAttackRelease of one tick
triggerCalls_Linear(g, step) ==
  LET activeNotes == notesAt(g, step)
  IN  IF Len(activeNotes) > 0
      THEN << [notes |-> activeNotes, velocity |-> VelocityScale \div Len(activeNotes)] >>
      ELSE << >>
triggerCalls(g, step) ==
  LET activeNotes == notesAt(g, step)
  IN  IF Len(activeNotes) > 0
      THEN << [notes |-> activeNotes, velocity |-> velocityOf(Len(activeNotes))] >>
      ELSE << >>

\* The callback of scheduleRepeat (lines 117-141) as a function of what it
\* reads: the globals it leaves and what it hands to the synth and to
\* scheduleVisual.
tickResult(mode, pending, arr, pos, g) ==
  LET apply   == ApplyAtBoundary(pos, pending)
      mode1   == IF apply THEN pending ELSE mode
      arr1    == IF apply THEN getStepArray(mode1) ELSE arr
      step    == At(arr1, pos)
      nextPos == (pos + 1) % Len(arr1)
      nextGridStep == At(arr1, nextPos)
  IN  [playbackMode        |-> mode1,
       pendingPlaybackMode |-> IF apply THEN NoMode ELSE pending,
       activeStepArray     |-> arr1,
       seqPosition         |-> nextPos,
       out |-> [step |-> step, next |-> nextGridStep, calls |-> triggerCalls(g, step)]]

\* One tick: the transport runs the callback once per sixteenth note while it
\* is started.  The visual update is handed to scheduleVisual and runs later
\* (RunVisual).
Tick ==
  /\ isPlaying
  /\ Len(drawQueue) < MaxVisualQueue
  /\ LET r == tickResult(playbackMode, pendingPlaybackMode, activeStepArray,
                         seqPosition, grid)
     IN  /\ playbackMode' = r.playbackMode
         /\ pendingPlaybackMode' = r.pendingPlaybackMode
         /\ activeStepArray' = r.activeStepArray
         /\ seqPosition' = r.seqPosition
         /\ drawQueue' = Append(drawQueue, [step |-> r.out.step,
                                            nextGridStep |-> r.out.next])
         /\ tickOut' = r.out
  /\ UNCHANGED <<isPlaying, playAwait, playheadCol>>
  /\ UNCHANGED gridVars
  /\ UNCHANGED cyVars

\* setPlaybackMode (lines 173-180); when stopped it runs buildLoop, which
\* regenerates the order and resets the cursor.
SetPlaybackMode_Immediate(mode) ==
  /\ playbackMode' = mode
  /\ activeStepArray' = getStepArray(mode)
  /\ seqPosition' = 0
  /\ tickOut' = NoTick
  /\ UNCHANGED <<pendingPlaybackMode, isPlaying, playAwait, drawQueue, playheadCol>>
  /\ UNCHANGED gridVars
  /\ UNCHANGED cyVars
SetPlaybackMode_Live(mode) ==
  /\ playbackMode' = mode
  /\ activeStepArray' = getStepArray(mode)
  /\ seqPosition' = IF isPlaying THEN seqPosition % Len(getStepArray(mode)) ELSE 0
  /\ tickOut' = NoTick
  /\ UNCHANGED <<pendingPlaybackMode, isPlaying, playAwait, drawQueue, playheadCol>>
  /\ UNCHANGED gridVars
  /\ UNCHANGED cyVars
SetPlaybackMode_Queued(mode) ==
  /\ pendingPlaybackMode' = mode
  /\ tickOut' = NoTick
  /\ UNCHANGED <<playbackMode, activeStepArray, seqPosition, isPlaying, playAwait,
                 drawQueue, playheadCol>>
  /\ UNCHANGED gridVars
  /\ UNCHANGED cyVars
SetPlaybackMode_KeepFirst(mode) ==
  /\ IF isPlaying
     THEN /\ pendingPlaybackMode' = IF pendingPlaybackMode = NoMode
                                    THEN mode
                                    ELSE pendingPlaybackMode
          /\ UNCHANGED <<playbackMode, activeStepArray, seqPosition>>
     ELSE /\ playbackMode' = mode
          /\ activeStepArray' = getStepArray(mode)
          /\ seqPosition' = 0
          /\ UNCHANGED pendingPlaybackMode
  /\ tickOut' = NoTick
  /\ UNCHANGED <<isPlaying, playAwait, drawQueue, playheadCol>>
  /\ UNCHANGED gridVars
  /\ UNCHANGED cyVars
SetPlaybackMode_KeepCursor(mode) ==
  /\ playbackMode' = mode
  /\ activeStepArray' = getStepArray(mode)
  /\ seqPosition' = IF isPlaying THEN seqPosition ELSE 0
  /\ tickOut' = NoTick
  /\ UNCHANGED <<pendingPlaybackMode, isPlaying, playAwait, drawQueue, playheadCol>>
  /\ UNCHANGED gridVars
  /\ UNCHANGED cyVars
SetPlaybackMode_Reorder(mode) ==
  /\ IF isPlaying
     THEN /\ pendingPlaybackMode' = mode
          /\ UNCHANGED <<playbackMode, activeStepArray, seqPosition>>
     ELSE /\ playbackMode' = mode
          /\ activeStepArray' = getStepArray(mode)
          /\ seqPosition' = 0
          /\ UNCHANGED pendingPlaybackMode
  /\ tickOut' = NoTick
  /\ stepSequence' = IF mode = "reverse" THEN Reverse(stepSequence) ELSE stepSequence
  /\ UNCHANGED <<isPlaying, playAwait, drawQueue, playheadCol>>
  /\ UNCHANGED <<grid, chordGroups>>
  /\ UNCHANGED cyVars
SetPlaybackMode(mode) ==
  /\ IF isPlaying
     THEN /\ pendingPlaybackMode' = mode
          /\ UNCHANGED <<playbackMode, activeStepArray, seqPosition>>
     ELSE /\ playbackMode' = mode
          /\ activeStepArray' = getStepArray(mode)
          /\ seqPosition' = 0
          /\ UNCHANGED pendingPlaybackMode
  /\ tickOut' = NoTick
  /\ UNCHANGED <<isPlaying, playAwait, drawQueue, playheadCol>>
  /\ UNCHANGED gridVars
  /\ UNCHANGED cyVars

\* play (lines 189-195) up to its await: a click while playing returns at once
PlayClick ==
  /\ playAwait' = IF isPlaying THEN playAwait ELSE playAwait + 1
  /\ ~isPlaying => playAwait < MaxPendingPlay
  /\ tickOut' = NoTick
  /\ UNCHANGED <<isPlaying, playbackMode, pendingPlaybackMode, activeStepArray,
                 seqPosition, drawQueue, playheadCol>>
  /\ UNCHANGED gridVars
  /\ UNCHANGED cyVars

\* play after its await: the transport starts and isPlaying is set
PlayResume ==
  /\ playAwait > 0
  /\ playAwait' = playAwait - 1
  /\ isPlaying' = TRUE
  /\ tickOut' = NoTick
  /\ UNCHANGED <<playbackMode, pendingPlaybackMode, activeStepArray, seqPosition,
                 drawQueue, playheadCol>>
  /\ UNCHANGED gridVars
  /\ UNCHANGED cyVars

\* stop (lines 197-213)
Stop_NoFlush ==
  /\ IF isPlaying
     THEN /\ isPlaying' = FALSE
          /\ seqPosition' = 0
          /\ pendingPlaybackMode' = NoMode
          /\ UNCHANGED <<playbackMode, activeStepArray>>
          /\ playheadCol' = -1
          /\ cyPlaying' = cyPlaying \ Range(prevPlayingNodes)
          /\ prevPlayingNodes' = <<>>
          /\ IF BallId \in cyNodes
             THEN ballAnim' = NoAnim /\ ballOpacity' = 0
             ELSE UNCHANGED <<ballAnim, ballOpacity>>
          /\ UNCHANGED <<cyNodes, cyEdges, ballPos>>
     ELSE /\ UNCHANGED <<isPlaying, seqPosition, pendingPlaybackMode, playbackMode,
                         activeStepArray, playheadCol>>
          /\ UNCHANGED cyVars
  /\ tickOut' = NoTick
  /\ UNCHANGED <<playAwait, drawQueue>>
  /\ UNCHANGED gridVars
Stop_KeepCursor ==
  /\ IF isPlaying
     THEN /\ isPlaying' = FALSE
          /\ IF pendingPlaybackMode # NoMode
             THEN /\ playbackMode' = pendingPlaybackMode
                  /\ pendingPlaybackMode' = NoMode
                  /\ activeStepArray' = getStepArray(pendingPlaybackMode)
                  /\ seqPosition' = 0
             ELSE UNCHANGED <<playbackMode, pendingPlaybackMode, activeStepArray,
                              seqPosition>>
          /\ playheadCol' = -1
          /\ cyPlaying' = cyPlaying \ Range(prevPlayingNodes)
          /\ prevPlayingNodes' = <<>>
          /\ IF BallId \in cyNodes
             THEN ballAnim' = NoAnim /\ ballOpacity' = 0
             ELSE UNCHANGED <<ballAnim, ballOpacity>>
          /\ UNCHANGED <<cyNodes, cyEdges, ballPos>>
     ELSE /\ UNCHANGED <<isPlaying, seqPosition, pendingPlaybackMode, playbackMode,
                         activeStepArray, playheadCol>>
          /\ UNCHANGED cyVars
  /\ tickOut' = NoTick
  /\ UNCHANGED <<playAwait, drawQueue>>
  /\ UNCHANGED gridVars
Stop ==
  /\ IF isPlaying
     THEN /\ isPlaying' = FALSE
          /\ seqPosition' = 0
          /\ IF pendingPlaybackMode # NoMode
             THEN /\ playbackMode' = pendingPlaybackMode
                  /\ pendingPlaybackMode' = NoMode
                  /\ activeStepArray' = getStepArray(pendingPlaybackMode)
             ELSE UNCHANGED <<playbackMode, pendingPlaybackMode, activeStepArray>>
          /\ playheadCol' = -1
          /\ cyPlaying' = cyPlaying \ Range(prevPlayingNodes)
          /\ prevPlayingNodes' = <<>>
          /\ IF BallId \in cyNodes
             THEN ballAnim' = NoAnim /\ ballOpacity' = 0
             ELSE UNCHANGED <<ballAnim, ballOpacity>>
          /\ UNCHANGED <<cyNodes, cyEdges, ballPos>>
     ELSE /\ UNCHANGED <<isPlaying, seqPosition, pendingPlaybackMode, playbackMode,
                         activeStepArray, playheadCol>>
          /\ UNCHANGED cyVars
  /\ tickOut' = NoTick
  /\ UNCHANGED <<playAwait, drawQueue>>
  /\ UNCHANGED gridVars

\* ------------------------------------------------- graph synchroniser

\* line 421: the ids of all event-nodes of the chord groups
activeIdsOf(groups) == UNION {Range(groups[s].nodeIds) : s \in DOMAIN groups}

\* lines 465-477: the chord-stack edges, top to bottom within each step
stackEdgesOf_Star(groups) ==
  UNION {
    { [id     |-> "stack-" \o ToString(step) \o "-" \o ToString(i),
       source |-> At(groups[step].nodeIds, i),
       target |-> groups[step].anchorId,
       type   |-> "chord-stack"] : i \in 0..(Len(groups[step].nodeIds) - 2) }
    : step \in DOMAIN groups }
stackEdgesOf(groups) ==
  UNION {
    { [id     |-> "stack-" \o ToString(step) \o "-" \o ToString(i),
       source |-> At(groups[step].nodeIds, i),
       target |-> At(groups[step].nodeIds, i + 1),
       type   |-> "chord-stack"] : i \in 0..(Len(groups[step].nodeIds) - 2) }
    : step \in DOMAIN groups }

\* lines 480-498: the sequence edges, anchor to next anchor, cyclically
seqEdgesOf_NoWrap(sequence) ==
  IF Len(sequence) >= 2
  THEN LET n == Len(sequence)
       IN  { LET this == At(sequence, i)
                 next == At(sequence, (i + 1) % n)
                 dist == next.step - this.step
             IN  [id     |-> "seq-" \o ToString(i),
                  source |-> this.anchorId,
                  target |-> next.anchorId,
                  dist   |-> Max(dist, 1),
                  seqIdx |-> i,
                  type   |-> "sequence"] : i \in 0..(n - 1) }
  ELSE {}
seqEdgesOf(sequence) ==
  IF Len(sequence) >= 2
  THEN LET n == Len(sequence)
       IN  { LET this == At(sequence, i)
                 next == At(sequence, (i + 1) % n)
                 dist == IF i < n - 1
                         THEN next.step - this.step
                         ELSE (STEPS - this.step) + next.step
             IN  [id     |-> "seq-" \o ToString(i),
                  source |-> this.anchorId,
                  target |-> next.anchorId,
                  dist   |-> Max(dist, 1),
                  seqIdx |-> i,
                  type   |-> "sequence"] : i \in 0..(n - 1) }
  ELSE {}

\* lines 431-460: stale event-nodes are removed, the ball and the nodes still
\* active stay, the newly active ones are added
syncNodes_KeepStale(nodes, activeIds) == nodes \cup activeIds
syncNodes(nodes, activeIds) ==
  {id \in nodes : id = BallId \/ id \in activeIds}
    \cup {id \in activeIds : id \notin nodes}

\* ------------------------------------------------------- radial layout

\* Lengths are integers in units of 1/PosScale pixel, sines and cosines in
\* units of 1/TrigScale.
PosScale == 10
TrigScale == 10000
\* line 385: the node diameter and the gap between adjacent anchors
NodeDiameter == 38
MinGap == 8
\* lines 378-379: the size taken when the container reports none
DefaultW == 400
DefaultH == 380

\* Math.sin(k * 2 * Math.PI / STEPS) for k = 0..4, and from it the sine and
\* the cosine of any k sixteenths of a turn
SinQuarter == <<0, 3827, 7071, 9239, 10000>>
SinTurn(k) ==
  LET m == k % 16
      h == m % 8
      v == IF h <= 4 THEN SinQuarter[h + 1] ELSE SinQuarter[8 - h + 1]
  IN  IF m < 8 THEN v ELSE 0 - v
CosTurn(k) == SinTurn(k + 4)
\* Math.sin(Math.PI / n) for n = 2..16
SinPiOver(n) ==
  <<10000, 10000, 8660, 7071, 5878, 5000, 4339, 3827, 3420, 3090, 2817, 2588,
    2393, 2225, 2079, 1951>>[n]
Min(a, b) == IF a <= b THEN a ELSE b

\* positionNodes (lines 377-397): where each anchor of the step sequence is
\* put, for a container of clientWidth x clientHeight pixels.  The angle of
\* step s is -PI/2 + (s / STEPS) * 2 PI, that is s - 4 sixteenths of a turn.
positionNodes(sequence, clientWidth, clientHeight) ==
  LET containerW   == IF clientWidth = 0 THEN DefaultW ELSE clientWidth
      containerH   == IF clientHeight = 0 THEN DefaultH ELSE clientHeight
      containerMin == Min(containerW, containerH)
      n     == Len(sequence)
      baseR == (containerMin * 28 * PosScale) \div 100
      minR  == IF n > 1
               THEN ((NodeDiameter + MinGap) * PosScale * TrigScale) \div (2 * SinPiOver(n))
               ELSE 0
      r     == Max(baseR, minR)
      cx    == (containerW * PosScale) \div 2
      cy_center == (containerH * PosScale) \div 2
  IN  [i \in 1..n |->
         [id |-> sequence[i].anchorId,
          x  |-> cx + (r * CosTurn(sequence[i].step + 12)) \div TrigScale,
          y  |-> cy_center + (r * SinTurn(sequence[i].step + 12)) \div TrigScale]]

\* updateGraph (lines 423-500) as the calls it makes on the graph, in the
\* order of the source, on grid g with the nodes and edges it finds: the
\* removal of all edges, the halt and the hiding of the ball, the removal of
\* the stale nodes, the addition of the new ones and of the new edges.  Each
\* loop is one entry, `what` the ids it removes or adds.
updateGraphCalls_HaltLate(g, nodes, edges) ==
  LET groups    == buildChordGroups(g)
      sequence  == buildStepSequence(groups)
      activeIds == activeIdsOf(groups)
      removeEdges == << [op |-> "removeEdges", what |-> {e.id : e \in edges}] >>
      haltBall  == IF BallId \in nodes
                   THEN << [op |-> "ballStop", what |-> {BallId}],
                           [op |-> "ballHide", what |-> {BallId}] >>
                   ELSE << >>
      syncNodesCalls ==
        << [op |-> "removeNodes",
            what |-> {id \in nodes : id # BallId /\ id \notin activeIds}],
           [op |-> "addNodes", what |-> {id \in activeIds : id \notin nodes}] >>
      addEdges  == IF activeIds = {}
                   THEN << >>
                   ELSE << [op |-> "addEdges",
                            what |-> {e.id : e \in stackEdgesOf(groups)
                                                     \cup seqEdgesOf(sequence)}] >>
  IN  removeEdges \o syncNodesCalls \o haltBall \o addEdges
updateGraphCalls(g, nodes, edges) ==
  LET groups    == buildChordGroups(g)
      sequence  == buildStepSequence(groups)
      activeIds == activeIdsOf(groups)
      removeEdges == << [op |-> "removeEdges", what |-> {e.id : e \in edges}] >>
      haltBall  == IF BallId \in nodes
                   THEN << [op |-> "ballStop", what |-> {BallId}],
                           [op |-> "ballHide", what |-> {BallId}] >>
                   ELSE << >>
      syncNodesCalls ==
        << [op |-> "removeNodes",
            what |-> {id \in nodes : id # BallId /\ id \notin activeIds}],
           [op |-> "addNodes", what |-> {id \in activeIds : id \notin nodes}] >>
      addEdges  == IF activeIds = {}
                   THEN << >>
                   ELSE << [op |-> "addEdges",
                            what |-> {e.id : e \in stackEdgesOf(groups)
                                                     \cup seqEdgesOf(sequence)}] >>
  IN  removeEdges \o haltBall \o syncNodesCalls \o addEdges

\* updateGraph (lines 410-504) on the grid g: the derived state it leaves.
\* cy is set by initGraph before any handler can run, so line 411 never
\* returns.
updateGraph_Patch(g) ==
  LET groups    == buildChordGroups(g)
      sequence  == buildStepSequence(groups)
      activeIds == activeIdsOf(groups)
  IN  /\ chordGroups' = groups
      /\ stepSequence' = sequence
      /\ prevPlayingNodes' = <<>>
      /\ IF BallId \in cyNodes
         THEN ballAnim' = NoAnim /\ ballOpacity' = 0
         ELSE UNCHANGED <<ballAnim, ballOpacity>>
      /\ cyNodes' = syncNodes(cyNodes, activeIds)
      /\ cyPlaying' = {id \in cyPlaying : id = BallId}
      /\ cyEdges' = IF activeIds = {}
                    THEN {}
                    ELSE cyEdges \cup stackEdgesOf(groups) \cup seqEdgesOf(sequence)
      /\ UNCHANGED ballPos
updateGraph(g) ==
  LET groups    == buildChordGroups(g)
      sequence  == buildStepSequence(groups)
      activeIds == activeIdsOf(groups)
  IN  /\ chordGroups' = groups
      /\ stepSequence' = sequence
      /\ prevPlayingNodes' = <<>>
      /\ IF BallId \in cyNodes
         THEN ballAnim' = NoAnim /\ ballOpacity' = 0
         ELSE UNCHANGED <<ballAnim, ballOpacity>>
      /\ cyNodes' = syncNodes(cyNodes, activeIds)
      /\ cyPlaying' = {id \in cyPlaying : id = BallId}
      /\ cyEdges' = IF activeIds = {}
                    THEN {}
                    ELSE stackEdgesOf(groups) \cup seqEdgesOf(sequence)
      /\ UNCHANGED ballPos

\* onCellClick (lines 80-84)
OnCellClick(note, step) ==
  LET g == IF <<note, step>> \in grid
           THEN grid \ {<<note, step>>}
           ELSE grid \cup {<<note, step>>}
  IN  /\ grid' = g
      /\ updateGraph(g)
      /\ tickOut' = NoTick
      /\ UNCHANGED <<clockVars, drawQueue, playheadCol>>

\* clearAll (lines 224-228)
ClearAll ==
  LET g == {}
  IN  /\ grid' = g
      /\ updateGraph(g)
      /\ tickOut' = NoTick
      /\ UNCHANGED <<clockVars, drawQueue, playheadCol>>

\* ------------------------------------------------- traversal animator

\* lines 534-541: the walk through activeStepArray from the first position
\* that holds nextGridStep; [found, step, dist]
nextChord(arr, groups, nextGridStep) ==
  LET n      == Len(arr)
      seqPos == IndexOf(arr, nextGridStep)
      hits   == {i \in 0..(n - 1) : At(arr, (seqPos + i) % n) \in DOMAIN groups}
  IN  IF hits = {}
      THEN [found |-> FALSE, step |-> -1, dist |-> 1]
      ELSE LET i == CHOOSE h \in hits : \A k \in hits : h <= k
           IN  [found |-> TRUE, step |-> At(arr, (seqPos + i) % n), dist |-> i + 1]

\* The callback a tick handed to scheduleVisual (lines 137-140):
\* highlightPlayhead(step), then updateGraphPlayhead(step, nextGridStep)
\* (lines 511-556).
RunVisual_NoCount ==
  /\ drawQueue # <<>>
  /\ LET step == Head(drawQueue).step
         nextGridStep == Head(drawQueue).nextGridStep
         cleared == cyPlaying \ Range(prevPlayingNodes)
     IN  /\ drawQueue' = Tail(drawQueue)
         /\ playheadCol' = step
         /\ tickOut' = NoTick
         /\ IF step \notin DOMAIN chordGroups
            THEN /\ cyPlaying' = cleared
                 /\ prevPlayingNodes' = <<>>
                 /\ UNCHANGED <<ballOpacity, ballAnim, ballPos>>
            ELSE LET srcGroup == chordGroups[step]
                     lit == SelectSeq(srcGroup.nodeIds, LAMBDA id : id \in cyNodes)
                     tgt == nextChord(activeStepArray, chordGroups, nextGridStep)
                 IN  /\ cyPlaying' = cleared \cup Range(lit)
                     /\ prevPlayingNodes' = lit
                     /\ IF /\ BallId \in cyNodes
                           /\ tgt.found
                           /\ srcGroup.anchorId \in cyNodes
                           /\ chordGroups[tgt.step].anchorId \in cyNodes
                        THEN /\ ballPos' = srcGroup.anchorId
                             /\ ballOpacity' = 1
                             /\ ballAnim' = [target |-> chordGroups[tgt.step].anchorId,
                                             dist   |-> Max(tgt.dist, 1)]
                        ELSE UNCHANGED <<ballOpacity, ballAnim, ballPos>>
  /\ UNCHANGED <<clockVars, cyNodes, cyEdges>>
  /\ UNCHANGED gridVars
RunVisual_RestFirst ==
  /\ drawQueue # <<>>
  /\ LET step == Head(drawQueue).step
         nextGridStep == Head(drawQueue).nextGridStep
         cleared == cyPlaying \ Range(prevPlayingNodes)
     IN  /\ drawQueue' = Tail(drawQueue)
         /\ playheadCol' = step
         /\ tickOut' = NoTick
         /\ IF step \notin DOMAIN chordGroups
            THEN UNCHANGED <<cyPlaying, prevPlayingNodes, ballOpacity, ballAnim, ballPos>>
            ELSE LET srcGroup == chordGroups[step]
                     lit == SelectSeq(srcGroup.nodeIds, LAMBDA id : id \in cyNodes)
                     tgt == nextChord(activeStepArray, chordGroups, nextGridStep)
                 IN  /\ cyPlaying' = cleared \cup Range(lit)
                     /\ prevPlayingNodes' = lit
                     /\ IF /\ BallId \in cyNodes
                           /\ Len(stepSequence) >= 2
                           /\ tgt.found
                           /\ srcGroup.anchorId \in cyNodes
                           /\ chordGroups[tgt.step].anchorId \in cyNodes
                        THEN /\ ballPos' = srcGroup.anchorId
                             /\ ballOpacity' = 1
                             /\ ballAnim' = [target |-> chordGroups[tgt.step].anchorId,
                                             dist   |-> Max(tgt.dist, 1)]
                        ELSE UNCHANGED <<ballOpacity, ballAnim, ballPos>>
  /\ UNCHANGED <<clockVars, cyNodes, cyEdges>>
  /\ UNCHANGED gridVars
RunVisual ==
  /\ drawQueue # <<>>
  /\ LET step == Head(drawQueue).step
         nextGridStep == Head(drawQueue).nextGridStep
         cleared == cyPlaying \ Range(prevPlayingNodes)
     IN  /\ drawQueue' = Tail(drawQueue)
         /\ playheadCol' = step
         /\ tickOut' = NoTick
         /\ IF step \notin DOMAIN chordGroups
            THEN /\ cyPlaying' = cleared
                 /\ prevPlayingNodes' = <<>>
                 /\ UNCHANGED <<ballOpacity, ballAnim, ballPos>>
            ELSE LET srcGroup == chordGroups[step]
                     lit == SelectSeq(srcGroup.nodeIds, LAMBDA id : id \in cyNodes)
                     tgt == nextChord(activeStepArray, chordGroups, nextGridStep)
                 IN  /\ cyPlaying' = cleared \cup Range(lit)
                     /\ prevPlayingNodes' = lit
                     /\ IF /\ BallId \in cyNodes
                           /\ Len(stepSequence) >= 2
                           /\ tgt.found
                           /\ srcGroup.anchorId \in cyNodes
                           /\ chordGroups[tgt.step].anchorId \in cyNodes
                        THEN /\ ballPos' = srcGroup.anchorId
                             /\ ballOpacity' = 1
                             /\ ballAnim' = [target |-> chordGroups[tgt.step].anchorId,
                                             dist   |-> Max(tgt.dist, 1)]
                        ELSE UNCHANGED <<ballOpacity, ballAnim, ballPos>>
  /\ UNCHANGED <<clockVars, cyNodes, cyEdges>>
  /\ UNCHANGED gridVars

\* ------------------------------------------------------ specifications

\* The observer of a queued mode: a request while playing starts the count,
\* a tick that leaves the mode queued adds one, anything else clears it.
CountWait ==
  waited' = IF pendingPlaybackMode' = NoMode \/ ~isPlaying' THEN 0
            ELSE IF tickOut' # NoTick
                 THEN (IF waited < 2 * STEPS THEN waited + 1 ELSE waited)
            ELSE IF pendingPlaybackMode' # pendingPlaybackMode THEN 0
            ELSE waited

\* The whole program: every handler, nothing observed.
Next ==
  \/ Tick
  \/ \E mode \in Modes : SetPlaybackMode(mode)
  \/ PlayClick
  \/ PlayResume
  \/ Stop
  \/ \E c \in Cells : OnCellClick(c[1], c[2])
  \/ ClearAll
  \/ RunVisual

Spec == Init /\ [][Next /\ UNCHANGED <<ev, waited>>]_vars

\* The playback clock on an untouched grid, each handler observed.
NextClock ==
  \/ Tick /\ Observe("tick", NoMode)
  \/ \E mode \in Modes : SetPlaybackMode(mode) /\ Observe("mode", mode)
  \/ PlayClick /\ Observe("play", NoMode)
  \/ PlayResume /\ Observe("resume", NoMode)
  \/ Stop /\ Observe("stop", NoMode)
  \/ RunVisual /\ Observe("visual", NoMode)

SpecClock == Init /\ [][NextClock]_vars

\* The playback clock with the wait of a queued mode counted.  The transport
\* calls the tick every sixteenth note while it runs and the draw loop runs
\* every scheduled callback, hence the fairness.
TickCounted == Tick /\ CountWait /\ UNCHANGED ev
VisualCounted == RunVisual /\ CountWait /\ UNCHANGED ev
NextPending ==
  \/ TickCounted
  \/ \E mode \in Modes : SetPlaybackMode(mode) /\ CountWait /\ UNCHANGED ev
  \/ PlayClick /\ CountWait /\ UNCHANGED ev
  \/ PlayResume /\ CountWait /\ UNCHANGED ev
  \/ Stop /\ CountWait /\ UNCHANGED ev
  \/ VisualCounted

SpecPending ==
  Init /\ [][NextPending]_vars /\ WF_vars(TickCounted) /\ WF_vars(VisualCounted)

\* The grid handlers with the clock in its initial mode.
NextGrid ==
  \/ Tick /\ UNCHANGED <<ev, waited>>
  \/ PlayClick /\ UNCHANGED <<ev, waited>>
  \/ PlayResume /\ UNCHANGED <<ev, waited>>
  \/ Stop /\ UNCHANGED <<ev, waited>>
  \/ \E c \in Cells : OnCellClick(c[1], c[2]) /\ UNCHANGED <<ev, waited>>
  \/ ClearAll /\ UNCHANGED <<ev, waited>>
  \/ RunVisual /\ UNCHANGED <<ev, waited>>

SpecGrid == Init /\ [][NextGrid]_vars

\* The grid handlers alone, the clock never started, on more cells.
NextEdit ==
  \/ \E c \in EditCells : OnCellClick(c[1], c[2]) /\ UNCHANGED <<ev, waited>>
  \/ ClearAll /\ UNCHANGED <<ev, waited>>

SpecEdit == Init /\ [][NextEdit]_vars

\* Every handler in every mode, on the two cells of ModeCells.
NextModes ==
  \/ Tick /\ UNCHANGED <<ev, waited>>
  \/ \E mode \in Modes : SetPlaybackMode(mode) /\ UNCHANGED <<ev, waited>>
  \/ PlayClick /\ UNCHANGED <<ev, waited>>
  \/ PlayResume /\ UNCHANGED <<ev, waited>>
  \/ Stop /\ UNCHANGED <<ev, waited>>
  \/ \E c \in ModeCells : OnCellClick(c[1], c[2]) /\ UNCHANGED <<ev, waited>>
  \/ ClearAll /\ UNCHANGED <<ev, waited>>
  \/ RunVisual /\ UNCHANGED <<ev, waited>>

SpecModes == Init /\ [][NextModes]_vars

\* The playback clock with the ticks since the last start counted.  The
\* observer keeps in ev.op what came last of a start ("start": play turned
\* the transport on), a mode request ("mode") and a stop ("stop"), in ev.was
\* whether the system has been stopped out of a run before, and in waited the
\* number of ticks since the last start, modulo 2 * STEPS, a multiple of the
\* length of every order.
Since(op, was) == [op |-> op, arg |-> NoMode, was |-> was, pend |-> NoMode, pos |-> 0]
NextRun ==
  \/ Tick /\ waited' = (waited + 1) % (2 * STEPS) /\ UNCHANGED ev
  \/ \E mode \in Modes :
       SetPlaybackMode(mode) /\ ev' = Since("mode", ev.was) /\ UNCHANGED waited
  \/ PlayClick /\ UNCHANGED <<ev, waited>>
  \/ PlayResume /\ IF isPlaying
                   THEN UNCHANGED <<ev, waited>>
                   ELSE ev' = Since("start", ev.was) /\ waited' = 0
  \/ Stop /\ ev' = Since("stop", ev.was \/ isPlaying) /\ UNCHANGED waited
  \/ RunVisual /\ UNCHANGED <<ev, waited>>

SpecRun == Init /\ [][NextRun]_vars

\* The playback clock with the requests of a mode noted.  The observer keeps
\* in ev.arg the mode requested last (NoMode before the first request) and in
\* waited how many requests have gone into the slot since it was last empty,
\* counted up to 2.
Requested(mode) ==
  /\ ev' = [ev EXCEPT !.op = "mode", !.arg = mode]
  /\ waited' = IF ~isPlaying THEN 0
                ELSE IF pendingPlaybackMode = NoMode THEN 1
                ELSE Min(waited + 1, 2)
NextSelect ==
  \/ Tick /\ UNCHANGED <<ev, waited>>
  \/ \E mode \in Modes : SetPlaybackMode(mode) /\ Requested(mode)
  \/ PlayClick /\ UNCHANGED <<ev, waited>>
  \/ PlayResume /\ UNCHANGED <<ev, waited>>
  \/ Stop /\ UNCHANGED <<ev, waited>>
  \/ RunVisual /\ UNCHANGED <<ev, waited>>

SpecSelect == Init /\ [][NextSelect]_vars

\* The grid handlers alone with each one noted.  The observer keeps in ev.op
\* and ev.arg the handler that ran last and the cell it was given, in ev.pend
\* the same of the handler before it, and in ev.was the grid, the chord
\* groups, the step sequence, the nodes and the edges that the last handler
\* found.
Noted(op, cell) ==
  /\ ev' = [op |-> op, arg |-> cell, was |-> <<grid, chordGroups, stepSequence,
                                               cyNodes, cyEdges>>,
            pend |-> <<ev.op, ev.arg>>, pos |-> 0]
  /\ UNCHANGED waited
NextToggle ==
  \/ \E c \in EditCells : OnCellClick(c[1], c[2]) /\ Noted("toggle", c)
  \/ ClearAll /\ Noted("clear", <<>>)

SpecToggle == Init /\ [][NextToggle]_vars

\* setPlaybackMode (lines 173-180) as a function of the globals it reads:
\* the mode, the slot, the order and the cursor it leaves.
setPlaybackModeResult(playing, mode, cur, pending, arr, pos) ==
  IF playing
  THEN [playbackMode |-> cur, pendingPlaybackMode |-> mode,
        activeStepArray |-> arr, seqPosition |-> pos, out |-> NoTick]
  ELSE [playbackMode |-> mode, pendingPlaybackMode |-> pending,
        activeStepArray |-> getStepArray(mode), seqPosition |-> 0, out |-> NoTick]

\* stop (lines 197-207) as a function of the globals it reads.
stopResult(playing, cur, pending, arr, pos) ==
  IF ~playing
  THEN [playbackMode |-> cur, pendingPlaybackMode |-> pending,
        activeStepArray |-> arr, seqPosition |-> pos, out |-> NoTick]
  ELSE IF pending # NoMode
  THEN [playbackMode |-> pending, pendingPlaybackMode |-> NoMode,
        activeStepArray |-> getStepArray(pending), seqPosition |-> 0, out |-> NoTick]
  ELSE [playbackMode |-> cur, pendingPlaybackMode |-> NoMode,
        activeStepArray |-> arr, seqPosition |-> 0, out |-> NoTick]

\* The playback clock run next to a second run of the same handlers on the
\* same inputs, in which every request of the active mode made while running
\* is left out.  The observer keeps in ev.twin the globals of the second run
\* and the output of its last tick, in ev.op the handler that ran last
\* ("same" for a request that the second run leaves out), in ev.found the
\* two slots and the cursor that handler found, and in ev.clean whether
\* every request left out so far found the slot empty or holding the active
\* mode.  Before the first handler the second run is in the initial state.
Twin ==
  IF ev.op = "init"
  THEN [playbackMode |-> playbackMode, pendingPlaybackMode |-> pendingPlaybackMode,
        activeStepArray |-> activeStepArray, seqPosition |-> seqPosition,
        out |-> NoTick]
  ELSE ev.twin
Clean == ev.op = "init" \/ ev.clean
Idle(t) == [t EXCEPT !.out = NoTick]
Twinned(op, t) ==
  /\ ev' = [op |-> op, twin |-> t,
            clean |-> Clean /\ (op = "same" =>
                                  pendingPlaybackMode \in {NoMode, playbackMode}),
            found |-> <<pendingPlaybackMode, Twin.pendingPlaybackMode, seqPosition>>]
  /\ UNCHANGED waited
NextTwin ==
  \/ Tick /\ Twinned("tick", tickResult(Twin.playbackMode, Twin.pendingPlaybackMode,
                                        Twin.activeStepArray, Twin.seqPosition, grid))
  \/ \E mode \in Modes :
       SetPlaybackMode(mode) /\
         IF isPlaying /\ mode = playbackMode
         THEN Twinned("same", Idle(Twin))
         ELSE Twinned("mode", setPlaybackModeResult(isPlaying, mode,
                                Twin.playbackMode, Twin.pendingPlaybackMode,
                                Twin.activeStepArray, Twin.seqPosition))
  \/ PlayClick /\ Twinned("play", Idle(Twin))
  \/ PlayResume /\ Twinned("resume", Idle(Twin))
  \/ Stop /\ Twinned("stop", stopResult(isPlaying, Twin.playbackMode,
                                        Twin.pendingPlaybackMode,
                                        Twin.activeStepArray, Twin.seqPosition))
  \/ RunVisual /\ Twinned("visual", Idle(Twin))

SpecTwin == Init /\ [][NextTwin]_vars

\* ---------------------------------------------------------------- claims

Forward16 == <<0, 1, 2, 3, 4, 5, 6, 7, 8, 9, 10, 11, 12, 13, 14, 15>>
Reverse16 == <<15, 14, 13, 12, 11, 10, 9, 8, 7, 6, 5, 4, 3, 2, 1, 0>>
progVars == <<clockVars, gridVars, cyVars, drawQueue, playheadCol>>
NoteIndex(n) == CHOOSE i \in 1..Len(NOTES) : NOTES[i] = n

\* C1: while running, a mode request leaves the active mode, the active order
\* and the cursor as they are, and so does every tick that starts with the
\* cursor past 0, which reads its step from the old order and keeps the
\* request queued; the tick that starts at cursor 0 with a mode M queued makes
\* getStepArray(M) the active order and reads element 0 of it.
C1_DeferredToBoundary ==
  [][ /\ (ev'.op = "mode" /\ isPlaying) =>
           /\ playbackMode' = playbackMode
           /\ activeStepArray' = activeStepArray
           /\ seqPosition' = seqPosition
      /\ (ev'.op = "tick" /\ seqPosition > 0) =>
           /\ playbackMode' = playbackMode
           /\ activeStepArray' = activeStepArray
           /\ pendingPlaybackMode' = pendingPlaybackMode
           /\ tickOut'.step = At(activeStepArray, seqPosition)
      /\ (ev'.op = "tick" /\ seqPosition = 0 /\ pendingPlaybackMode # NoMode) =>
           /\ playbackMode' = pendingPlaybackMode
           /\ activeStepArray' = getStepArray(pendingPlaybackMode)
           /\ tickOut'.step = At(getStepArray(pendingPlaybackMode), 0)
    ]_vars

\* a tick in mid-pass has just run with reverse queued over forward
C1_Witness ==
  /\ ev.op = "tick" /\ ev.pos > 0 /\ ev.pend = "reverse"
  /\ isPlaying /\ playbackMode = "forward" /\ pendingPlaybackMode = "reverse"
  /\ tickOut.step = ev.pos

\* C2: a switch never happens in mid-pass.  Every step that replaces the
\* active order or the active mode is either a tick, which then has read
\* element 0 of the new order, or leaves the cursor at 0; the cursor leaves 0
\* only by a tick; and a tick that starts at cursor 0 reads element 0 of the
\* order then in force.
C2_NoMidPassSwitch ==
  [][ /\ ( \/ activeStepArray' # activeStepArray
           \/ playbackMode' # playbackMode
           \/ (ev'.op = "tick" /\ seqPosition = 0 /\ pendingPlaybackMode # NoMode)
           \/ (ev'.op = "mode" /\ ~isPlaying)
           \/ (ev'.op = "stop" /\ isPlaying /\ pendingPlaybackMode # NoMode) )
         => IF ev'.op = "tick"
            THEN tickOut'.step = At(activeStepArray', 0) /\ seqPosition' = 1
            ELSE seqPosition' = 0
      /\ ev'.op # "tick" => seqPosition' \in {seqPosition, 0}
      /\ (ev'.op = "tick" /\ seqPosition = 0) => tickOut'.step = At(activeStepArray', 0)
    ]_vars

\* the tick at the boundary has just consumed a queued reverse and read 15
C2_Witness ==
  /\ ev.op = "tick" /\ ev.pos = 0 /\ ev.pend = "reverse"
  /\ playbackMode = "reverse" /\ pendingPlaybackMode = NoMode
  /\ tickOut.step = 15 /\ seqPosition = 1

\* C3: a mode queued while running waits for fewer ticks than the active
\* order is long; the tick that starts at cursor 0 makes it the active mode and
\* empties the slot; and with ticks occurring fairly a queued mode M always
\* ends up as the active mode with the slot empty, unless another mode is
\* requested first.
C3_AppliedWithinOnePass ==
  /\ []((isPlaying /\ pendingPlaybackMode # NoMode) => waited < Len(activeStepArray))
  /\ [][ (tickOut' # NoTick /\ seqPosition = 0 /\ pendingPlaybackMode # NoMode) =>
            (playbackMode' = pendingPlaybackMode /\ pendingPlaybackMode' = NoMode) ]_vars
  /\ \A m \in Modes :
       (isPlaying /\ pendingPlaybackMode = m)
         ~> ( \/ (pendingPlaybackMode = NoMode /\ playbackMode = m)
              \/ pendingPlaybackMode \notin {m, NoMode} )

\* a mode queued at cursor 1 of the pingpong order has waited 31 ticks and the
\* cursor is back at 0
C3_Witness ==
  /\ isPlaying /\ playbackMode = "pingpong" /\ pendingPlaybackMode = "reverse"
  /\ seqPosition = 0 /\ waited = 31

\* C4: a stop while running leaves the system stopped, the cursor at 0 and the
\* slot empty; a queued mode M becomes the active mode with getStepArray(M) the
\* active order, and without one mode and order stay.  A stop while stopped
\* changes nothing.
C4_Stop ==
  [][ ev'.op = "stop" =>
        IF isPlaying
        THEN /\ ~isPlaying'
             /\ seqPosition' = 0
             /\ pendingPlaybackMode' = NoMode
             /\ IF pendingPlaybackMode # NoMode
                THEN /\ playbackMode' = pendingPlaybackMode
                     /\ activeStepArray' = getStepArray(pendingPlaybackMode)
                ELSE /\ playbackMode' = playbackMode
                     /\ activeStepArray' = activeStepArray
        ELSE progVars' = progVars
    ]_vars

\* stop has just flushed a reverse queued in mid-pass
C4_Witness ==
  /\ ev.op = "stop" /\ ev.was /\ ev.pend = "reverse" /\ ev.pos > 0
  /\ ~isPlaying /\ playbackMode = "reverse" /\ activeStepArray = Reverse16

\* C5: right after a mode request made while stopped, the requested mode is
\* the active mode, its order is the active order, the cursor is 0 and the
\* slot is empty.
C5_ImmediateWhenStopped ==
  (ev.op = "mode" /\ ~ev.was) =>
    /\ playbackMode = ev.arg
    /\ activeStepArray = getStepArray(ev.arg)
    /\ seqPosition = 0
    /\ pendingPlaybackMode = NoMode
    /\ ~isPlaying

\* pingpong has just been requested while stopped
C5_Witness ==
  /\ ev.op = "mode" /\ ~ev.was /\ ev.arg = "pingpong"
  /\ playbackMode = "pingpong" /\ Len(activeStepArray) = 32

\* C6: a request of the active mode while running leaves the cursor as it
\* is, and every later tick starts at the same cursor and plays the same step
\* as the tick of the run without the request.
C6_SameModeNoOp ==
  [][ /\ ev'.op = "same" => seqPosition' = seqPosition
      /\ ev'.op = "tick" =>
           /\ seqPosition = Twin.seqPosition
           /\ tickOut'.step = ev'.twin.out.step
    ]_vars

\* C6 as it holds: a request of the active mode while running leaves the
\* cursor, the mode and the order as they are and puts the active mode in the
\* slot; as long as every such request found the slot empty or holding the
\* active mode, the run and the run without the requests have the same mode,
\* order and cursor, the slot holds what the other slot holds or the active
\* mode against an empty one, and every tick starts at the same cursor, plays
\* the same step with the same calls and leaves the same cursor, the tick at
\* the boundary that consumes the slot included.  (A request that finds
\* another mode queued replaces it.)
C6_SameModeNoOpOnFreeSlot ==
  /\ [](Clean =>
          /\ playbackMode = Twin.playbackMode
          /\ activeStepArray = Twin.activeStepArray
          /\ seqPosition = Twin.seqPosition
          /\ \/ pendingPlaybackMode = Twin.pendingPlaybackMode
             \/ /\ pendingPlaybackMode = playbackMode
                /\ Twin.pendingPlaybackMode = NoMode)
  /\ [][ /\ ev'.op = "same" =>
              /\ seqPosition' = seqPosition
              /\ playbackMode' = playbackMode
              /\ activeStepArray' = activeStepArray
              /\ isPlaying'
              /\ pendingPlaybackMode' = playbackMode
         /\ (ev'.op = "tick" /\ ev'.clean) =>
              /\ seqPosition = Twin.seqPosition
              /\ tickOut' = ev'.twin.out
              /\ seqPosition' = ev'.twin.seqPosition
         /\ (ev'.op = "same" /\ pendingPlaybackMode \notin {NoMode, playbackMode}) =>
              /\ ~ev'.clean
              /\ pendingPlaybackMode' # pendingPlaybackMode
       ]_vars

\* the tick at the boundary has just consumed a request of the active mode
\* that found the slot empty: the run without it had nothing to consume, and
\* both played the first step of the pingpong order and stand at cursor 1
C6_Witness ==
  /\ ev.op = "tick" /\ ev.clean
  /\ ev.found = <<"pingpong", NoMode, 0>>
  /\ playbackMode = "pingpong" /\ pendingPlaybackMode = NoMode
  /\ seqPosition = 1 /\ tickOut.step = 0 /\ ev.twin.out.step = 0

\* C7: getStepArray gives [0..15] for forward, [15..0] for reverse and the
\* first followed by the second, 32 entries with 15 and 0 each on two adjacent
\* places, for pingpong; the active order is always the one of the active mode.
C7_StepArrays ==
  /\ getStepArray("forward") = Forward16
  /\ getStepArray("reverse") = Reverse16
  /\ getStepArray("pingpong") = Forward16 \o Reverse16
  /\ Len(getStepArray("forward")) = 16
  /\ Len(getStepArray("reverse")) = 16
  /\ Len(getStepArray("pingpong")) = 32
  /\ At(getStepArray("pingpong"), 15) = 15 /\ At(getStepArray("pingpong"), 16) = 15
  /\ At(getStepArray("pingpong"), 31) = 0 /\ At(getStepArray("pingpong"), 0) = 0
  /\ activeStepArray = (CASE playbackMode = "forward"  -> Forward16
                          [] playbackMode = "reverse"  -> Reverse16
                          [] playbackMode = "pingpong" -> Forward16 \o Reverse16)

\* a tick has just read step 15 for the second time in a row in pingpong
C7_Witness ==
  /\ ev.op = "tick" /\ ev.pos = 16 /\ playbackMode = "pingpong"
  /\ tickOut.step = 15 /\ seqPosition = 17

\* C8: the chord-group map has an entry for step s exactly when some pitch is
\* active at s; the entry's notes are exactly the pitches active at s, each
\* once, from high to low, never none, and its anchor is the last and lowest.
C8_ChordGroups ==
  \A s \in 0..(STEPS - 1) :
    LET active == {n \in Range(NOTES) : <<n, s>> \in grid}
    IN  /\ (s \in DOMAIN chordGroups) <=> (active # {})
        /\ s \in DOMAIN chordGroups =>
             LET grp == chordGroups[s]
             IN  /\ Len(grp.notes) > 0
                 /\ Len(grp.notes) = Cardinality(active)
                 /\ Range(grp.notes) = active
                 /\ \A i, j \in 1..Len(grp.notes) :
                      i < j => NoteIndex(grp.notes[i]) < NoteIndex(grp.notes[j])
                 /\ grp.anchor = grp.notes[Len(grp.notes)]
                 /\ \A n \in active : NoteIndex(n) <= NoteIndex(grp.anchor)

\* a chord of two pitches or more at step 0 with C4 its lowest, and another
\* chord at step 8
C8_Witness ==
  /\ 0 \in DOMAIN chordGroups /\ Len(chordGroups[0].notes) >= 2
  /\ 8 \in DOMAIN chordGroups
  /\ chordGroups[0].anchor = "C4"

\* C9: a tick triggers the synth once, with all the pitches active at its step
\* and the velocity 1/sqrt(k) for k pitches (the largest v, in units of
\* 1/VelocityScale, with v*v*k <= VelocityScale^2), when there are any, and not
\* at all when there is none.
C9_OneTriggerPerTick ==
  tickOut # NoTick =>
    LET active == {n \in Range(NOTES) : <<n, tickOut.step>> \in grid}
        k == Cardinality(active)
    IN  IF k = 0
        THEN tickOut.calls = <<>>
        ELSE /\ Len(tickOut.calls) = 1
             /\ Len(tickOut.calls[1].notes) = k
             /\ Range(tickOut.calls[1].notes) = active
             /\ LET v == tickOut.calls[1].velocity
                IN  /\ v * v * k <= VelocityScale * VelocityScale
                    /\ (v + 1) * (v + 1) * k > VelocityScale * VelocityScale

\* a tick has just triggered a chord of two pitches or more
C9_Witness ==
  /\ tickOut # NoTick
  /\ Len(tickOut.calls) = 1
  /\ Len(tickOut.calls[1].notes) >= 2

\* C10: the nodes other than the ball are exactly the event ids of the active
\* cells, one node per active cell, and the ball is always a node.
C10_NodesMatchGrid ==
  /\ BallId \in cyNodes
  /\ cyNodes \ {BallId} = {eventId(c[1], c[2]) : c \in grid}
  /\ Cardinality(cyNodes \ {BallId}) = Cardinality(grid)

\* the ball has been put on an anchor, and of the cells since cleared one is
\* active again: nodes were added, removed and added
C10_Witness ==
  /\ ballPos # "origin"
  /\ Cardinality(grid) = 1
  /\ Cardinality(cyNodes) = 2

\* The pitches active at step s, and of two pitches the one written lower in
\* the roll (NOTES runs from high to low).
ActiveAt(s) == {n \in Range(NOTES) : <<n, s>> \in grid}
NextLower(n, s) ==
  CHOOSE m \in ActiveAt(s) :
    /\ NoteIndex(m) > NoteIndex(n)
    /\ \A x \in ActiveAt(s) : NoteIndex(x) > NoteIndex(n) => NoteIndex(m) <= NoteIndex(x)
Lowest(s) == CHOOSE m \in ActiveAt(s) : \A x \in ActiveAt(s) : NoteIndex(x) <= NoteIndex(m)
StackEdges == {e \in cyEdges : e.type = "chord-stack"}
SeqEdges == {e \in cyEdges : e.type = "sequence"}

\* C11: the chord-stack edges that touch the nodes of a step with k active
\* pitches are k-1 in number, one from each pitch but the lowest to the next
\* lower active pitch of the same step, so that they chain from the top pitch
\* down to the anchor; a step with one pitch has none; every chord-stack edge
\* has both ends at one step.
C11_StackChain ==
  /\ \A s \in 0..(STEPS - 1) :
       LET ids == {eventId(n, s) : n \in ActiveAt(s)}
           at  == {e \in StackEdges : e.source \in ids \/ e.target \in ids}
       IN  /\ ActiveAt(s) = {} => at = {}
           /\ ActiveAt(s) # {} =>
                /\ Cardinality(at) = Cardinality(ActiveAt(s)) - 1
                /\ \A n \in ActiveAt(s) \ {Lowest(s)} :
                     \E e \in at : /\ e.source = eventId(n, s)
                                   /\ e.target = eventId(NextLower(n, s), s)
                /\ chordGroups[s].anchorId = eventId(Lowest(s), s)
                /\ \A e \in at : e.source # chordGroups[s].anchorId
  /\ \A e \in StackEdges :
       \E s \in 0..(STEPS - 1) :
         {e.source, e.target} \subseteq {eventId(n, s) : n \in ActiveAt(s)}

\* three pitches at step 0 chained by two edges, C5 to G4 and G4 to C4, beside
\* a chord of two at step 8 and a single pitch at step 15
C11_Witness ==
  /\ ActiveAt(0) = {"C5", "G4", "C4"}
  /\ Cardinality(ActiveAt(8)) = 2
  /\ Cardinality(ActiveAt(15)) = 1
  /\ \E e \in StackEdges : e.source = "C5@0" /\ e.target = "G4@0"
  /\ \E e \in StackEdges : e.source = "G4@0" /\ e.target = "C4@0"
  /\ Cardinality(StackEdges) = 3

\* The steps with an active pitch, and from such a step the next one round
\* the cycle of STEPS steps.
ChordSteps == {s \in 0..(STEPS - 1) : ActiveAt(s) # {}}
NextChordStep(s) ==
  LET later == {t \in ChordSteps : t > s}
      pick  == IF later # {} THEN later ELSE ChordSteps
  IN  CHOOSE t \in pick : \A u \in pick : t <= u

\* C12: when n >= 2 steps have an active pitch there are n sequence edges;
\* the one of the i-th such step a (counting from 0 in increasing step order)
\* carries index i, runs from the lowest pitch of a to the lowest pitch of the
\* next such step b round the cycle, and carries the distance (b - a) mod 16,
\* which lies in 1..15.
C12_SequenceEdges ==
  Cardinality(ChordSteps) >= 2 =>
    /\ Cardinality(SeqEdges) = Cardinality(ChordSteps)
    /\ \A a \in ChordSteps :
         LET b == NextChordStep(a)
             i == Cardinality({t \in ChordSteps : t < a})
         IN  \E e \in SeqEdges :
               /\ e.seqIdx = i
               /\ e.source = eventId(Lowest(a), a)
               /\ e.target = eventId(Lowest(b), b)
               /\ e.dist = (b - a + STEPS) % STEPS
               /\ e.dist \in 1..(STEPS - 1)

\* chords at steps 0, 3 and 8: the edges carry 3, 5 and, round the end, 8
C12_Witness ==
  /\ ChordSteps = {0, 3, 8}
  /\ \E e \in SeqEdges : e.source = "C4@0" /\ e.target = "A4@3" /\ e.dist = 3
  /\ \E e \in SeqEdges : e.source = "A4@3" /\ e.dist = 5
  /\ \E e \in SeqEdges : e.target = "C4@0" /\ e.dist = 8 /\ e.seqIdx = 2

\* C13: while fewer than two steps have an active pitch there is no sequence
\* edge, the ball is hidden and no animation of it runs, whatever handler ran
\* last, the visual update of a tick included.
C13_NoTraversalBelowTwo ==
  Cardinality(ChordSteps) < 2 =>
    /\ SeqEdges = {}
    /\ ballOpacity = 0
    /\ ballAnim = NoAnim

\* the visual update of a tick at step 0 has lit the only chord, in the
\* reverse mode while running
C13_Witness ==
  /\ ChordSteps = {0}
  /\ isPlaying /\ playbackMode = "reverse"
  /\ playheadCol = 0 /\ cyPlaying = {"C4@0"}
  /\ ballOpacity = 0

\* A step is the visual update of a tick exactly when it takes an entry off
\* the draw queue; VisualOfLastTick: the tick ran just before and the entry is
\* its own.
IsVisual == Len(drawQueue') < Len(drawQueue)
VisualOfLastTick == IsVisual /\ tickOut # NoTick /\ Len(drawQueue) = 1

\* From cursor position pos, the number of further positions to go through
\* the active order (wrapping) until a step with an active pitch comes up.
TicksToChord(pos) ==
  LET n    == Len(activeStepArray)
      hits == {i \in 0..(n - 1) : At(activeStepArray, (pos + i) % n) \in ChordSteps}
  IN  CHOOSE h \in hits : \A k \in hits : h <= k

\* C14: when the visual update of the tick that just ran finds a chord at the
\* tick's step, at least two chords in the grid and no mode queued, the ball is
\* shown and sent to the anchor of the chord that is played next, the first one
\* met from the cursor (the position played next) on through the active order,
\* and the count for the duration is the number of ticks until that chord is
\* played.
C14_MarkerTargetsNextPlayed ==
  [][ ( /\ VisualOfLastTick
        /\ Head(drawQueue).step \in ChordSteps
        /\ Cardinality(ChordSteps) >= 2
        /\ pendingPlaybackMode = NoMode )
      => LET j == TicksToChord(seqPosition)
             b == At(activeStepArray, (seqPosition + j) % Len(activeStepArray))
         IN  /\ ballOpacity' = 1
             /\ ballPos' = eventId(Lowest(Head(drawQueue).step), Head(drawQueue).step)
             /\ ballAnim' = [target |-> eventId(Lowest(b), b), dist |-> j + 1]
             /\ j + 1 >= 1
    ]_vars

\* What of a call changes the structure of the graph, and where in a sequence
\* of calls the ball has been halted and hidden.
Structural(c) == c.op \in {"removeEdges", "removeNodes", "addNodes", "addEdges"} /\ c.what # {}
HiddenAt(log) == CHOOSE i \in 1..Len(log) : log[i].op = "ballHide"
WhatOf(log, op) == UNION {log[i].what : i \in {k \in 1..Len(log) : log[k].op = op}}

\* C15 as stated: in the rebuild of every step that changes the grid, the
\* ball is halted and hidden before any call that removes or adds an edge or
\* a node.
C15_HiddenBeforeAnyChange ==
  [][ grid' # grid =>
        \A log \in {updateGraphCalls(grid', cyNodes, cyEdges)} :
            /\ \E i \in 1..Len(log) : log[i].op = "ballHide"
            /\ \A i \in 1..Len(log) : Structural(log[i]) => HiddenAt(log) < i
    ]_vars

\* C15 as it holds: in the rebuild of every step that changes the grid, the
\* ball is halted and then hidden before any call that removes or adds a node
\* or adds an edge, and all that comes before is the removal of the edges
\* there were; the calls leave the nodes, the edges and the ball as the step
\* does.
C15_HiddenBeforeNodeChange ==
  [][ grid' # grid =>
        \A log \in {updateGraphCalls(grid', cyNodes, cyEdges)} :
            /\ \E i \in 1..Len(log) : log[i].op = "ballHide"
            /\ \E i \in 1..Len(log) : log[i].op = "ballStop" /\ i < HiddenAt(log)
            /\ \A h \in {HiddenAt(log)} :
                 /\ \A i \in 1..Len(log) :
                      log[i].op \in {"removeNodes", "addNodes", "addEdges"} => h < i
                 /\ \A i \in 1..(h - 1) : log[i].op \in {"removeEdges", "ballStop"}
            /\ cyNodes' = (cyNodes \ WhatOf(log, "removeNodes")) \cup WhatOf(log, "addNodes")
            /\ {e.id : e \in cyEdges'} = WhatOf(log, "addEdges")
            /\ WhatOf(log, "removeEdges") = {e.id : e \in cyEdges}
            /\ ballOpacity' = 0 /\ ballAnim' = NoAnim
    ]_vars

\* while running, a rebuild has removed the node the ball was last put on, and
\* the ball is hidden
C15_Witness ==
  /\ isPlaying
  /\ ballPos = "E4@8" /\ ballPos \notin cyNodes
  /\ cyNodes = {BallId, "C4@0"}
  /\ ballOpacity = 0 /\ ballAnim = NoAnim

\* C16 as stated: the visual update of a tick whose step has no active pitch
\* leaves the highlighted nodes and the ball's visibility, position and
\* animation as they are.
C16_RestChangesNothing ==
  [][ (IsVisual /\ Head(drawQueue).step \notin ChordSteps)
      => UNCHANGED <<cyPlaying, ballOpacity, ballPos, ballAnim>> ]_vars

\* C16 as it holds: the visual update of a tick whose step has no active pitch
\* takes the highlight off the nodes lit before, so that none is lit after it,
\* lights no node, and leaves the ball's visibility, position and animation
\* as they are.
C16_RestOnlyClears ==
  [][ (IsVisual /\ Head(drawQueue).step \notin ChordSteps)
      => /\ cyPlaying' = {}
         /\ prevPlayingNodes' = <<>>
         /\ UNCHANGED <<ballOpacity, ballPos, ballAnim>> ]_vars

\* the update for step 1, a rest, has run after the one for step 0: no node is
\* lit and the ball is still on its way from C4@0 to E4@8
C16_Witness ==
  /\ playheadCol = 1 /\ 1 \notin ChordSteps
  /\ drawQueue = <<>> /\ isPlaying
  /\ cyPlaying = {}
  /\ ballOpacity = 1 /\ ballPos = "C4@0"
  /\ ballAnim = [target |-> "E4@8", dist |-> 8]

\* The container sizes the layout is tried on, in pixels; 0 x 0 is a container
\* that reports no size.
Viewports == {<<0, 0>>, <<400, 380>>, <<320, 480>>, <<1024, 768>>, <<1600, 1200>>}

\* C17: with two chord steps or more, on every viewport, the centres of any
\* two anchors lie at least NodeDiameter + MinGap pixels apart after the layout
\* pass (squared lengths, in units of 1/PosScale pixel).
C17_AnchorsApart ==
  Len(stepSequence) >= 2 =>
    \A vp \in Viewports :
      \A pos \in {positionNodes(stepSequence, vp[1], vp[2])} :
        \A i, j \in 1..Len(pos) :
          i < j =>
            (pos[i].x - pos[j].x) * (pos[i].x - pos[j].x)
              + (pos[i].y - pos[j].y) * (pos[i].y - pos[j].y)
                >= ((NodeDiameter + MinGap) * PosScale) * ((NodeDiameter + MinGap) * PosScale)

\* What the graph is made of: the grid and what updateGraph derives from it.
Topology == <<grid, chordGroups, stepSequence, cyNodes, cyEdges>>

\* C18: a step that changes the clock (the mode, the queued mode, the order,
\* the cursor, running or not, a start in waiting), that puts a visual update
\* on the draw queue or takes one off, or that is a tick, leaves the grid, the
\* chord groups, the step sequence, the nodes and the edges with their
\* distances as they are; these change only in a step that changes the grid,
\* and such a step leaves the clock alone.
C18_TopologyModeInvariant ==
  [][ /\ ( \/ clockVars' # clockVars
           \/ drawQueue' # drawQueue
           \/ tickOut' # NoTick ) => Topology' = Topology
      /\ Topology' # Topology =>
           /\ grid' # grid
           /\ UNCHANGED <<clockVars, drawQueue, playheadCol>>
    ]_vars

\* a tick has just read step 8 in the reverse mode with pingpong queued, and
\* the two sequence edges still carry the forward distances 8 and 8
C18_Witness ==
  /\ isPlaying /\ playbackMode = "reverse" /\ pendingPlaybackMode = "pingpong"
  /\ tickOut # NoTick /\ tickOut.step = 8
  /\ ChordSteps = {0, 8}
  /\ \E e \in SeqEdges : e.source = "C4@0" /\ e.target = "E4@8" /\ e.dist = 8
  /\ \E e \in SeqEdges : e.source = "E4@8" /\ e.target = "C4@0" /\ e.dist = 8

\* C19: while the system is stopped the ball is hidden, no node is lit and no
\* column of the roll is marked as the playhead, whatever has run since the
\* stop, a visual update put on the draw queue before it included.  (The
\* system is stopped from the outset and after every stop.)
C19_ClearWhileStopped ==
  ~isPlaying =>
    /\ ballOpacity = 0
    /\ ballAnim = NoAnim
    /\ cyPlaying = {}
    /\ playheadCol = -1

\* C20: as long as neither a mode request nor a stop has come since the last
\* start, the tick that comes after j others since that start reads the step
\* at place j mod L of the active order, L its length, leaves the order as it
\* is and the cursor at (j + 1) mod L; so the first tick after a start, after
\* a stop as well, reads the step at place 0.
C20_TickFollowsOrder ==
  [][ (ev.op = "start" /\ tickOut' # NoTick) =>
        /\ activeStepArray' = activeStepArray
        /\ tickOut'.step = At(activeStepArray, waited % Len(activeStepArray))
        /\ seqPosition' = (waited + 1) % Len(activeStepArray)
        /\ waited = 0 => tickOut'.step = At(activeStepArray, 0)
    ]_vars

\* after a stop and a new start, a whole pass of 32 ticks in the pingpong
\* mode: the last one read place 31 of the order, step 0, and left the cursor
\* at 0
C20_Witness ==
  /\ ev.op = "start" /\ ev.was
  /\ playbackMode = "pingpong" /\ isPlaying
  /\ tickOut # NoTick /\ tickOut.step = 0 /\ tickOut.next = 0
  /\ waited = 0 /\ seqPosition = 0

\* C21: in every state the active order is the one getStepArray gives for the
\* active mode, and the cursor is a place of it: at least 0 and less than its
\* length, also when a 16-entry order has just taken the place of the
\* 32-entry one.
C21_CursorInOrder ==
  /\ activeStepArray = getStepArray(playbackMode)
  /\ seqPosition \in 0..(Len(activeStepArray) - 1)
  /\ Len(activeStepArray) = IF playbackMode = "pingpong" THEN 2 * STEPS ELSE STEPS

\* a stop at cursor 20 of the pingpong order has just put the queued reverse
\* order of 16 entries in its place
C21_Witness ==
  /\ ev.op = "stop" /\ ev.was /\ ev.pos = 20 /\ ev.pend = "reverse"
  /\ playbackMode = "reverse" /\ Len(activeStepArray) = 16
  /\ seqPosition = 0

\* The mode requested last, forward when none has been.
Selected == IF ev.arg = NoMode THEN "forward" ELSE ev.arg

\* C22: while the system is stopped the slot is empty, the active mode is the
\* mode requested last (forward when none has been), its order is the active
\* order and the cursor is 0; a start leaves the cursor at 0 and the tick at
\* cursor 0 plays the first step of the order of the mode requested last by
\* then; and the active mode never changes to any mode but the one requested
\* last, so that of several requests in one pass only the last is applied.
C22_StoppedInSelectedMode ==
  /\ [](~isPlaying =>
          /\ pendingPlaybackMode = NoMode
          /\ playbackMode = Selected
          /\ activeStepArray = getStepArray(Selected)
          /\ seqPosition = 0)
  /\ [][ /\ (~isPlaying /\ isPlaying') => (seqPosition' = 0 /\ playbackMode' = Selected)
         /\ (tickOut' # NoTick /\ seqPosition = 0) =>
              /\ playbackMode' = Selected
              /\ tickOut'.step = At(getStepArray(Selected), 0)
         /\ playbackMode' # playbackMode => playbackMode' = Selected'
         /\ pendingPlaybackMode' \in {NoMode, Selected'}
       ]_vars

\* two requests went into the slot during one pass, reverse the last, and the
\* tick at the boundary has just applied reverse and read step 15
C22_Witness ==
  /\ waited = 2 /\ ev.arg = "reverse"
  /\ isPlaying /\ pendingPlaybackMode = NoMode /\ playbackMode = "reverse"
  /\ tickOut # NoTick /\ tickOut.step = 15 /\ seqPosition = 1

\* Every cell of the roll.
AllCells == {<<n, st>> : n \in Range(NOTES), st \in 0..(STEPS - 1)}

\* C23: a toggle changes the grid at the cell it is given and at no other;
\* and a toggle that follows a toggle of the same cell leaves the grid, the
\* chord groups, the step sequence, the nodes and the edges, with their ids,
\* ends and distances, equal to what the first of the two found.
C23_ToggleTwiceRestores ==
  [][ ev'.op = "toggle" =>
        /\ (ev'.arg \in grid') <=> (ev'.arg \notin grid)
        /\ \A d \in AllCells \ {ev'.arg} : (d \in grid') <=> (d \in grid)
        /\ (ev.op = "toggle" /\ ev.arg = ev'.arg) => Topology' = ev.was
    ]_vars

\* C4 at step 0, the anchor of a chord of three beside chords at steps 8 and
\* 15, has been switched off and on again
C23_Witness ==
  /\ ev.op = "toggle" /\ ev.arg = <<"C4", 0>>
  /\ ev.pend = <<"toggle", <<"C4", 0>>>>
  /\ ActiveAt(0) = {"C5", "G4", "C4"}
  /\ ChordSteps = {0, 8, 15}
  /\ chordGroups[0].anchorId = "C4@0"
  /\ Cardinality(SeqEdges) = 3

====
